---- MODULE Spec2Model ----
(***************************************************************************)
(* The OVERSIGHT frontend as a state machine.                              *)
(*                                                                         *)
(* Two page components are modelled: the dashboard                         *)
(* (oversight-frontend/app/dashboard/page.tsx, DashboardPage) and the      *)
(* terminal-style wallet page (unnamed/part_000, Home).  A browser session *)
(* shows one of them; `page` says which.  The remote ledger is not part of *)
(* the program: every response is a nondeterministic choice.               *)
(*                                                                         *)
(* JavaScript strings are sequences of one-character strings, so that      *)
(* parseFloat, trim and toFixed are computed, not assumed.  Money is held  *)
(* in hundredths (cents).  A JavaScript value is a record [t, n, s]: t its *)
(* type tag, n its number (cents) when t = "num", s its characters when    *)
(* t = "str".                                                              *)
(***************************************************************************)
EXTENDS Integers, Sequences, FiniteSets

VARIABLES
    page,           \* which page component is mounted
    mounted,        \* the page's useEffect(..., []) has run
    agents,         \* dashboard: useState<Agent[]>
    transactions,   \* dashboard: useState<Transaction[]>
    loading,        \* dashboard: useState(true)
    error,          \* dashboard: useState<string | null>
    success,        \* dashboard: useState<string | null>
    selectedAgent,  \* dashboard form: agent id, "" when none
    amount,         \* dashboard form: the amount input's text
    vendor,         \* dashboard form: the vendor input's text
    processing,     \* dashboard: useState(false)
    status,         \* Home: useState("")
    homeAgents,     \* Home: useState<any[]>([])
    sent,           \* the requests fetch() was called with outside loadData, in order
    loads,          \* the loadData() calls, in order: which of its two GETs have settled
    uuids,          \* how many values crypto.randomUUID() has handed out
    clicks          \* how many user-initiated submissions were accepted by a handler

vars == <<page, mounted, agents, transactions, loading, error, success,
          selectedAgent, amount, vendor, processing, status,
          homeAgents, sent, loads, uuids, clicks>>

dashVars == <<agents, transactions, loading, error, success, selectedAgent,
              amount, vendor, processing>>

homeVars == <<status, homeAgents>>

-----------------------------------------------------------------------------
(* Bounds of the model *)

\* network operations in one behaviour: a POST, a GET of the Home page, or one
\* loadData() call with its two GETs
MaxCalls == 3

-----------------------------------------------------------------------------
(* JavaScript strings and numbers *)

Digit == [c \in {"0", "1", "2", "3", "4", "5", "6", "7", "8", "9"} |->
            CASE c = "0" -> 0 [] c = "1" -> 1 [] c = "2" -> 2 [] c = "3" -> 3
              [] c = "4" -> 4 [] c = "5" -> 5 [] c = "6" -> 6 [] c = "7" -> 7
              [] c = "8" -> 8 [] c = "9" -> 9]

IsDigit(c) == c \in DOMAIN Digit

IsSpace(c) == c \in {" ", "\t", "\n"}

\* the text "Infinity", the one non-digit literal StrDecimalLiteral accepts
InfinityLit == <<"I", "n", "f", "i", "n", "i", "t", "y">>

\* s without its first n characters
Drop(s, n) == SubSeq(s, n + 1, Len(s))

\* how many characters at the head of s satisfy the test
RECURSIVE SpanDigits(_)
SpanDigits(s) ==
    IF s # <<>> /\ IsDigit(Head(s)) THEN 1 + SpanDigits(Tail(s)) ELSE 0

RECURSIVE SpanSpaces(_)
SpanSpaces(s) ==
    IF s # <<>> /\ IsSpace(Head(s)) THEN 1 + SpanSpaces(Tail(s)) ELSE 0

\* the natural number a run of digits denotes
RECURSIVE DigitsValue(_)
DigitsValue(s) ==
    IF s = <<>> THEN 0
    ELSE 10 * DigitsValue(SubSeq(s, 1, Len(s) - 1)) + Digit[s[Len(s)]]

\* String.prototype.trim
RECURSIVE trimEnd(_)
trimEnd(s) ==
    IF s # <<>> /\ IsSpace(s[Len(s)]) THEN trimEnd(SubSeq(s, 1, Len(s) - 1)) ELSE s

trim(s) == trimEnd(Drop(s, SpanSpaces(s)))

\* JavaScript numbers: a finite number of cents, NaN, or an infinity
Num(n) == [t |-> "num", n |-> n, s |-> <<>>]
NaN == [t |-> "nan", n |-> 0, s |-> <<>>]
Infinity == [t |-> "inf", n |-> 1, s |-> <<>>]
NegInfinity == [t |-> "inf", n |-> -1, s |-> <<>>]

\* the other JavaScript values a JSON body can hold in a field
Str(s) == [t |-> "str", n |-> 0, s |-> s]
Undefined == [t |-> "undefined", n |-> 0, s |-> <<>>]
Null == [t |-> "null", n |-> 0, s |-> <<>>]

\* The longest prefix of s that is a StrDecimalLiteral: [num, used], used = 0
\* when there is none.  Exponents are not modelled: no input of the model holds
\* an "e".  Digits after the second decimal are dropped (money is in cents).
ScanDecimal(s) ==
    LET sign == IF s # <<>> /\ Head(s) \in {"-", "+"} THEN 1 ELSE 0
        neg == sign = 1 /\ Head(s) = "-"
        body == Drop(s, sign)
        ni == SpanDigits(body)
        afterInt == Drop(body, ni)
        hasDot == afterInt # <<>> /\ Head(afterInt) = "."
        nf == IF hasDot THEN SpanDigits(Tail(afterInt)) ELSE 0
        frac == IF hasDot THEN SubSeq(Tail(afterInt), 1, nf) ELSE <<>>
        cents == 100 * DigitsValue(SubSeq(body, 1, ni))
                 + (IF nf >= 1 THEN 10 * Digit[frac[1]] ELSE 0)
                 + (IF nf >= 2 THEN Digit[frac[2]] ELSE 0)
    IN  IF Len(body) >= 8 /\ SubSeq(body, 1, 8) = InfinityLit
            THEN [num |-> IF neg THEN NegInfinity ELSE Infinity, used |-> sign + 8]
        ELSE IF ni + nf = 0
            THEN [num |-> NaN, used |-> 0]
        ELSE [num |-> Num(IF neg THEN -cents ELSE cents),
              used |-> sign + ni + (IF hasDot THEN 1 + nf ELSE 0)]

\* parseFloat(string): leading white space skipped, then the longest numeric
\* prefix; whatever follows it is ignored
parseFloat(s) == ScanDecimal(Drop(s, SpanSpaces(s))).num

isNaN(x) == x.t = "nan"

\* x <= 0 on JavaScript numbers (false for NaN)
LeqZero(x) == (x.t = "num" /\ x.n <= 0) \/ (x.t = "inf" /\ x.n < 0)

\* Number.isFinite
IsFinite(x) == x.t = "num"

\* Number(value): a string must be numeric as a whole ("" is 0)
Number(v) ==
    CASE v.t = "num" -> v
      [] v.t = "nan" -> v
      [] v.t = "inf" -> v
      [] v.t = "null" -> Num(0)
      [] v.t = "undefined" -> NaN
      [] v.t = "str" ->
            LET r == trim(v.s)
                p == ScanDecimal(r)
            IN  IF r = <<>> THEN Num(0)
                ELSE IF p.used = Len(r) THEN p.num ELSE NaN

\* ToBoolean
Truthy(v) ==
    CASE v.t = "num" -> v.n # 0
      [] v.t = "nan" -> FALSE
      [] v.t = "inf" -> TRUE
      [] v.t = "null" -> FALSE
      [] v.t = "undefined" -> FALSE
      [] v.t = "str" -> v.s # <<>>

\* value || 0
OrZero(v) == IF Truthy(v) THEN v ELSE Num(0)

\* Number(value) || 0
SafeNumber(v) == OrZero(Number(v))

\* the decimal digits of a natural number
RECURSIVE NatToString(_)
NatToString(n) ==
    IF n < 10 THEN <<CHOOSE c \in DOMAIN Digit : Digit[c] = n>>
    ELSE NatToString(n \div 10) \o <<CHOOSE c \in DOMAIN Digit : Digit[c] = n % 10>>

\* Number.prototype.toFixed(2) of a JavaScript number
toFixed2(x) ==
    CASE x.t = "nan" -> <<"N", "a", "N">>
      [] x.t = "inf" -> (IF x.n < 0 THEN <<"-">> ELSE <<>>) \o InfinityLit
      [] x.t = "num" ->
            LET a == IF x.n < 0 THEN -x.n ELSE x.n
            IN  (IF x.n < 0 THEN <<"-">> ELSE <<>>)
                \o NatToString(a \div 100) \o <<".">>
                \o NatToString((a % 100) \div 10) \o NatToString(a % 10)

\* value.toFixed exists only on numbers: a string has no such method
HasToFixed(v) == v.t \in {"num", "nan", "inf"}

-----------------------------------------------------------------------------
(* Messages shown to the operator *)

\* A message is the text pre + d, or, for an approved payment,
\* pre + a + ", Tax: $" + b.  pre is a literal of the program; d, a and b are
\* the parts computed at run time.  null and "" both display nothing.
Msg(pre, d, a, b) == [pre |-> pre, d |-> d, a |-> a, b |-> b]

Text(pre) == Msg(pre, <<>>, <<>>, <<>>)

NoMsg == Text("")

\* String(value), as a template literal `${value}` computes it
TemplateString(v) ==
    CASE v.t = "str" -> v.s
      [] v.t = "undefined" -> <<"u", "n", "d", "e", "f", "i", "n", "e", "d">>
      [] v.t = "null" -> <<"n", "u", "l", "l">>
      [] v.t = "nan" -> <<"N", "a", "N">>
      [] v.t = "inf" -> (IF v.n < 0 THEN <<"-">> ELSE <<>>) \o InfinityLit
      [] v.t = "num" -> toFixed2(v)

\* message || fallback
OrText(m, fallback) == IF m # NoMsg THEN m ELSE Text(fallback)

\* messages of the errors the runtime itself raises
FetchFailed == Text("Failed to fetch")
JsonSyntaxError == Text("Unexpected token < in JSON at position 0")
NotAFunction == Text("toFixed is not a function")
NullProperty == Text("Cannot read properties of null")

-----------------------------------------------------------------------------
(* What the operator may type, and what the ledger may answer *)

\* the amount input of the payment form (type="number": "" or a decimal)
FormAmounts == { <<>>, <<"-", "5">>, <<"5", "0">> }

\* the vendor input of the payment form (free text)
FormVendors == { <<>>, <<" ">>, <<"A", "W", "S">> }

\* what window.prompt may return (free text)
PromptInputs ==
    { <<>>, <<"5">>, <<"-", "5">>, <<"0">>, <<"a", "b", "c">>, <<"5", "a">>,
      InfinityLit }

OverLimit == <<"O", "V", "E", "R", "_", "L", "I", "M", "I", "T">>

\* the characters of 'Invalid amount': the text of handlePayment's own
\* validation message, and a detail the ledger may give for a bad amount
InvalidAmountText ==
    <<"I", "n", "v", "a", "l", "i", "d", " ", "a", "m", "o", "u", "n", "t">>

\* one agent record as GET /agents returns it
RawAgent(id, wallet, balance, spent, remaining) ==
    [id |-> id, wallet_address |-> wallet, balance |-> balance,
     daily_spent |-> spent, daily_remaining |-> remaining]

\* agent lists the ledger may return
AgentLists ==
    { <<>>,
      << RawAgent("a1", "w1", Num(10000), Num(0), Num(5000)) >>,
      << RawAgent("a1", "w1", Num(5000), Str(<<"5", "0">>), Undefined) >> }

\* one transaction record as GET /transactions returns it
RawTx(id, st, paid, tax, balance) ==
    [transaction_id |-> id, status |-> st, vendor_paid |-> paid,
     tax_collected |-> tax, new_balance |-> balance]

\* transaction lists the ledger may return
TxLists ==
    { <<>>,
      << RawTx("t1", "APPROVED", Str(InfinityLit), Str(<<"x">>), Null) >> }

\* How a fetch() followed by response.json() may end: the fetch promise
\* rejects ("reject"), the body is no JSON ("notjson"), the body is JSON null
\* ("null"), or it is a JSON object ("json").  The answers below are the ones
\* the ledger is taken to give.

\* an answer to GET /agents or GET /transactions; has = the list field is there
GetResponse(net, ok, has, list) == [net |-> net, ok |-> ok, has |-> has, list |-> list]

GetResponses(lists) ==
    { GetResponse("reject", FALSE, FALSE, <<>>),
      GetResponse("json", FALSE, FALSE, <<>>),
      GetResponse("json", TRUE, FALSE, <<>>) }
    \cup { GetResponse("json", TRUE, TRUE, l) : l \in lists }

\* an answer to POST /process-payment
PaymentResponse(net, ok, st, paid, tax, detail) ==
    [net |-> net, ok |-> ok, status |-> st, vendor_paid |-> paid,
     tax_collected |-> tax, detail |-> detail]

PaymentResponses ==
    { PaymentResponse("reject", FALSE, "", Undefined, Undefined, Undefined),
      PaymentResponse("json", FALSE, "", Undefined, Undefined, Undefined),
      PaymentResponse("json", FALSE, "", Undefined, Undefined, Str(InvalidAmountText)),
      PaymentResponse("json", TRUE, "APPROVED", Num(4500), Num(500), Undefined),
      PaymentResponse("json", TRUE, "APPROVED", Undefined, Null, Undefined),
      PaymentResponse("json", TRUE, "APPROVED", Str(<<"4", "5">>), Num(500), Undefined),
      PaymentResponse("json", TRUE, "DENIED", Num(0), Num(0), Str(OverLimit)),
      PaymentResponse("json", TRUE, "", Undefined, Undefined, Undefined) }

\* an answer to POST /deposit
DepositResponse(net, ok, st, detail) ==
    [net |-> net, ok |-> ok, status |-> st, detail |-> detail]

DepositResponses ==
    { DepositResponse("reject", FALSE, "", Undefined),
      DepositResponse("json", FALSE, "", Undefined),
      DepositResponse("json", FALSE, "FAILED", Str(OverLimit)),
      DepositResponse("json", TRUE, "SUCCESS", Undefined),
      DepositResponse("json", TRUE, "FAILED", Str(OverLimit)),
      DepositResponse("json", TRUE, "", Undefined) }

\* answers to the Home page's GET /agents: {status, data}
HomeWalletLists == { <<>>, <<"w1">> }

HomeGetResponses ==
    { [net |-> "reject", status |-> "", data |-> <<>>],
      [net |-> "json", status |-> "", data |-> <<>>] }
    \cup { [net |-> "json", status |-> "SUCCESS", data |-> l] : l \in HomeWalletLists }

\* response.json() resolved to an object (not null): the handler can read fields
IsObject(r) == r.net = "json"

\* the try block got past fetch() and response.json()
Parsed(r) == r.net \in {"null", "json"}

\* the HTTP status text of a response that is not ok
HttpStatus == <<"5", "0", "0">>

-----------------------------------------------------------------------------
(* Requests *)

\* an idempotency key: `${prefix}${crypto.randomUUID()}`; NoKey when the
\* payload has no idempotency_key field
Key(prefix, uuid) == [prefix |-> prefix, uuid |-> uuid]

NoKey == Key("", 0)

\* One call of fetch(): the payload, and what the model remembers about it.
\* click numbers the user-initiated submission that issued it (0: none),
\* entered is the text the amount was parsed from, outcome is "pending" until
\* the promise has settled and the handler has resumed.
Request(pg, url, wallet, amt, vnd, key, click, entered) ==
    [page |-> pg, url |-> url, wallet_address |-> wallet, amount |-> amt,
     vendor |-> vnd, idempotency_key |-> key, click |-> click,
     entered |-> entered, outcome |-> "pending"]

Get(pg, url) == Request(pg, url, "", NaN, <<>>, NoKey, 0, <<>>)

\* how many network operations have been started
Calls == Len(sent) + Len(loads)

\* the requests of kind url that page pg still awaits
Pending(pg, url) ==
    { i \in DOMAIN sent :
        sent[i].page = pg /\ sent[i].url = url /\ sent[i].outcome = "pending" }

\* what an answer amounts to: the fetch promise rejected, the body could not
\* be read, the HTTP status was not ok, or else the status field of the body
Outcome(r) ==
    IF r.net = "reject" THEN "rejected"
    ELSE IF r.net # "json" THEN r.net
    ELSE IF "ok" \in DOMAIN r /\ ~r.ok THEN "http_error"
    ELSE r.status

\* sent with request i settled by answer r
Settle(i, r) == [sent EXCEPT ![i].outcome = Outcome(r)]

\* the key's random part minted once per loadData() instead of once per
\* submission
randomUUID_PerLoad == Len(loads)

\* crypto.randomUUID(): a version-4 UUID, 122 random bits; modelled as a value
\* never handed out before
randomUUID == uuids + 1

-----------------------------------------------------------------------------
(* Dashboard: DashboardPage *)

Init ==
    /\ page \in {"dashboard", "home"}
    /\ mounted = FALSE
    /\ agents = <<>>
    /\ transactions = <<>>
    /\ loading = TRUE
    /\ error = NoMsg
    /\ success = NoMsg
    /\ selectedAgent = ""
    /\ amount = <<>>
    /\ vendor = <<>>
    /\ processing = FALSE
    /\ status = NoMsg
    /\ homeAgents = <<>>
    /\ sent = <<>>
    /\ loads = <<>>
    /\ uuids = 0
    /\ clicks = 0

\* the dashboard is on screen and shows its controls (not the spinner)
Rendered == page = "dashboard" /\ mounted /\ ~loading

\* FormEnabled with the disabled attribute left off the submit button
FormEnabled_NeverDisabled == page = "dashboard" /\ mounted /\ ~loading

\* the payment form's fields and submit button: disabled={processing}
FormEnabled == Rendered /\ ~processing

\* an agent row's Deposit button: no disabled attribute
DepositEnabled == Rendered

\* agents.find(a => a.id === id): the index of the first match, 0 when none
Find(id) ==
    IF \E i \in DOMAIN agents : agents[i].id = id
    THEN CHOOSE i \in DOMAIN agents :
            agents[i].id = id /\ \A j \in 1..(i - 1) : agents[j].id # id
    ELSE 0

\* what the model remembers of the answer to a load's GET /agents: nothing yet,
\* or the answer as fetchAgents reads it (a failed fetch and a response that
\* is not ok both end in the catch block)
NoAnswer == GetResponse("pending", FALSE, FALSE, <<>>)

AnswerOf(r) ==
    IF r.net = "json" /\ r.ok THEN GetResponse("json", TRUE, r.has, r.list)
    ELSE GetResponse("reject", FALSE, FALSE, <<>>)

\* loads after a loadData() call: fetchAgents() and fetchTransactions() have
\* each called fetch(); parent names the handler awaiting the call
NewLoad(parent) ==
    Append(loads, [agentsDone |-> FALSE, txDone |-> FALSE, parent |-> parent,
                   agentsAnswer |-> NoAnswer])

\* useEffect(() => { loadData() }, [])
DashboardMount ==
    /\ page = "dashboard" /\ ~mounted
    /\ Calls < MaxCalls
    /\ mounted' = TRUE
    /\ loading' = TRUE
    /\ loads' = NewLoad("none")
    /\ UNCHANGED <<page, sent, agents, transactions, error, success, selectedAgent,
                   amount, vendor, processing, uuids, clicks>>
    /\ UNCHANGED homeVars

\* the Refresh button: onClick={loadData}
Refresh ==
    /\ Rendered
    /\ Calls < MaxCalls
    /\ loading' = TRUE
    /\ loads' = NewLoad("none")
    /\ UNCHANGED <<page, sent, mounted, agents, transactions, error, success,
                   selectedAgent, amount, vendor, processing, uuids, clicks>>
    /\ UNCHANGED homeVars

\* the form's onChange handlers
SetSelectedAgent(id) ==
    /\ FormEnabled
    /\ id = "" \/ \E i \in DOMAIN agents : agents[i].id = id
    /\ selectedAgent' = id
    /\ UNCHANGED <<page, mounted, agents, transactions, loading, error, success,
                   amount, vendor, processing, sent, loads, uuids, clicks>>
    /\ UNCHANGED homeVars

SetAmount(text) ==
    /\ FormEnabled
    /\ amount' = text
    /\ UNCHANGED <<page, mounted, agents, transactions, loading, error, success,
                   selectedAgent, vendor, processing, sent, loads, uuids,
                   clicks>>
    /\ UNCHANGED homeVars

SetVendor(text) ==
    /\ FormEnabled
    /\ vendor' = text
    /\ UNCHANGED <<page, mounted, agents, transactions, loading, error, success,
                   selectedAgent, amount, processing, sent, loads, uuids,
                   clicks>>
    /\ UNCHANGED homeVars

-----------------------------------------------------------------------------
(* Dashboard: handlePayment *)

\* !selectedAgent || !amount || !vendor
MissingField == selectedAgent = "" \/ amount = <<>> \/ vendor = <<>>

\* isNaN(x) || x <= 0
InvalidAmount(x) == isNaN(x) \/ LeqZero(x)

\* the key handlePayment puts in its payload
PaymentKey == Key("web_", randomUUID)

\* the form's onSubmit, up to the call of fetch()
handlePayment ==
    /\ FormEnabled
    /\ LET amountNum == parseFloat(amount)
           k == Find(selectedAgent)
       IN  IF MissingField THEN
               /\ error' = Text("Please fill in all fields")
               /\ UNCHANGED <<success, processing, sent, uuids, clicks>>
           ELSE IF InvalidAmount(amountNum) THEN
               /\ error' = Text("Invalid amount")
               /\ UNCHANGED <<success, processing, sent, uuids, clicks>>
           ELSE IF k = 0 THEN
               /\ error' = Text("Agent not found")
               /\ UNCHANGED <<success, processing, sent, uuids, clicks>>
           ELSE
               /\ Calls < MaxCalls
               /\ processing' = TRUE
               /\ error' = NoMsg
               /\ success' = NoMsg
               /\ uuids' = uuids + 1
               /\ clicks' = clicks + 1
               /\ sent' = Append(sent,
                      Request("dashboard", "/process-payment",
                              agents[k].wallet_address, amountNum, trim(vendor),
                              PaymentKey, clicks + 1, amount))
    /\ UNCHANGED <<page, mounted, agents, transactions, loading, selectedAgent,
                   amount, vendor, loads>>
    /\ UNCHANGED homeVars

\* PaymentApproved decided by the HTTP status alone
PaymentApproved_HttpOnly(r) == r.net = "json" /\ r.ok

\* data.status === 'APPROVED', reached only with response.ok
PaymentApproved(r) == IsObject(r) /\ r.ok /\ r.status = "APPROVED"

\* (data.vendor_paid || 0).toFixed(2) and (data.tax_collected || 0).toFixed(2)
\* both evaluate
CanFormat(r) == HasToFixed(OrZero(r.vendor_paid)) /\ HasToFixed(OrZero(r.tax_collected))

\* the success message of an approved payment
ApprovedMsg(r) ==
    Msg("Payment approved! Vendor received $", <<>>,
        toFixed2(OrZero(r.vendor_paid)), toFixed2(OrZero(r.tax_collected)))

\* the message of a server-declared denial
DeniedMsg(r) == Msg("Payment denied: ", TemplateString(r.detail), <<>>, <<>>)

\* err.message of what the try block throws before it reaches the status
ThrownMsg(r, fallback) ==
    CASE r.net = "reject" -> FetchFailed
      [] r.net = "notjson" -> JsonSyntaxError
      [] r.net = "null" -> NullProperty
      [] r.net = "json" ->
            IF Truthy(r.detail) THEN Msg("", TemplateString(r.detail), <<>>, <<>>)
            ELSE fallback

\* what handlePayment puts in `error` for a response that does not end in the
\* approval branch
PaymentError(r) ==
    IF ~IsObject(r) \/ ~r.ok
        THEN OrText(ThrownMsg(r, Msg("HTTP ", HttpStatus, <<>>, <<>>)),
                    "Payment failed. Please try again.")
    ELSE IF r.status = "APPROVED"
        THEN OrText(NotAFunction, "Payment failed. Please try again.")
    ELSE DeniedMsg(r)

\* handlePaymentResponse with a catch block that empties the lists, as the
\* catch blocks of fetchAgents and fetchTransactions do
handlePaymentResponse_ClearsOnError(i, r) ==
    /\ i \in Pending("dashboard", "/process-payment")
    /\ IF PaymentApproved(r) /\ CanFormat(r) THEN
           /\ Calls < MaxCalls
           /\ success' = ApprovedMsg(r)
           /\ amount' = <<>>
           /\ vendor' = <<>>
           /\ loading' = TRUE
           /\ sent' = Settle(i, r)
           /\ loads' = NewLoad("payment")
           /\ UNCHANGED <<error, processing, agents, transactions>>
       ELSE
           /\ error' = PaymentError(r)
           /\ processing' = FALSE
           /\ sent' = Settle(i, r)
           /\ agents' = <<>>
           /\ transactions' = <<>>
           /\ UNCHANGED <<success, amount, vendor, loading, loads>>
    /\ UNCHANGED <<page, mounted, selectedAgent, uuids, clicks>>
    /\ UNCHANGED homeVars

\* handlePayment resumed after fetch() and response.json(): lines 195-222
handlePaymentResponse(i, r) ==
    /\ i \in Pending("dashboard", "/process-payment")
    /\ IF PaymentApproved(r) /\ CanFormat(r) THEN
           /\ Calls < MaxCalls
           /\ success' = ApprovedMsg(r)
           /\ amount' = <<>>
           /\ vendor' = <<>>
           /\ loading' = TRUE
           /\ sent' = Settle(i, r)
           /\ loads' = NewLoad("payment")
           /\ UNCHANGED <<error, processing>>
       ELSE
           /\ error' = PaymentError(r)
           /\ processing' = FALSE
           /\ sent' = Settle(i, r)
           /\ UNCHANGED <<success, amount, vendor, loading, loads>>
    /\ UNCHANGED <<page, mounted, agents, transactions, selectedAgent,
                   uuids, clicks>>
    /\ UNCHANGED homeVars

-----------------------------------------------------------------------------
(* Dashboard: handleDeposit *)

\* the key handleDeposit puts in its payload
DepositKey == Key("deposit_", randomUUID)

\* a Deposit button's onClick, up to the call of fetch(); answer is what
\* window.prompt returned: Null when cancelled, else the text typed
handleDeposit(agentId, answer) ==
    /\ DepositEnabled
    /\ \E i \in DOMAIN agents : agents[i].id = agentId
    /\ LET k == Find(agentId)
           x == parseFloat(answer.s)
       IN  IF k = 0 \/ ~Truthy(answer) THEN
               UNCHANGED <<sent, uuids, clicks>>
           ELSE IF InvalidAmount(x) THEN
               \* alert('Invalid amount'): a modal dialog, no state of the page changes
               UNCHANGED <<sent, uuids, clicks>>
           ELSE
               /\ Calls < MaxCalls
               /\ uuids' = uuids + 1
               /\ clicks' = clicks + 1
               /\ sent' = Append(sent,
                      Request("dashboard", "/deposit", agents[k].wallet_address,
                              x, <<>>, DepositKey, clicks + 1, answer.s))
    /\ UNCHANGED <<page, mounted, agents, transactions, loading, error, success,
                   selectedAgent, amount, vendor, processing, loads>>
    /\ UNCHANGED homeVars

\* the response lets handleDeposit report success: it parsed and is response.ok
DepositAccepted(r) == Parsed(r) /\ r.ok

\* handleDeposit resumed after fetch() and response.json(): lines 257-267
handleDepositResponse(i, r) ==
    /\ i \in Pending("dashboard", "/deposit")
    /\ IF DepositAccepted(r) THEN
           /\ Calls < MaxCalls
           /\ success' = Msg("Deposited $", <<>>, toFixed2(sent[i].amount), <<>>)
           /\ loading' = TRUE
           /\ sent' = Settle(i, r)
           /\ loads' = NewLoad("none")
           /\ UNCHANGED error
       ELSE
           /\ error' = OrText(ThrownMsg(r, Text("Deposit failed")), "Deposit failed")
           /\ sent' = Settle(i, r)
           /\ UNCHANGED <<success, loading, loads>>
    /\ UNCHANGED <<page, mounted, agents, transactions, selectedAgent, amount,
                   vendor, processing, uuids, clicks>>
    /\ UNCHANGED homeVars

-----------------------------------------------------------------------------
(* Dashboard: fetchAgents, fetchTransactions, loadData, exportAudit *)

\* the try block of a fetch function runs to its end
GetSucceeded(r) == IsObject(r) /\ r.ok

\* data.agents || [], data.transactions || []
ListOf(r) == IF r.has THEN r.list ELSE <<>>

\* the map of fetchAgents
safeAgents(list) ==
    [k \in DOMAIN list |->
        [list[k] EXCEPT !.balance = SafeNumber(@),
                        !.daily_spent = SafeNumber(@),
                        !.daily_remaining = SafeNumber(@)]]

\* the map of fetchTransactions
safeTxs(list) ==
    [k \in DOMAIN list |->
        [list[k] EXCEPT !.vendor_paid = SafeNumber(@),
                        !.tax_collected = SafeNumber(@),
                        !.new_balance = SafeNumber(@)]]

\* the loadData() calls whose GET /agents (what = "agents") or
\* GET /transactions (what = "tx") is still awaited
PendingGet(what) ==
    { l \in DOMAIN loads :
        IF what = "agents" THEN ~loads[l].agentsDone ELSE ~loads[l].txDone }

\* Promise.all of load l resolves when `what` settles: the other fetch is done
LastOfLoad(l, what) == IF what = "agents" THEN loads[l].txDone ELSE loads[l].agentsDone

\* AfterLoad without the finally block of handlePayment
AfterLoad_NoFinally(l, what) ==
    /\ loading' = IF LastOfLoad(l, what) THEN FALSE ELSE loading
    /\ processing' = processing

\* loadData after its await (setLoading(false)), then the finally of the
\* handlePayment that awaited it (setProcessing(false))
AfterLoad(l, what) ==
    /\ loading' = IF LastOfLoad(l, what) THEN FALSE ELSE loading
    /\ processing' = IF LastOfLoad(l, what) /\ loads[l].parent = "payment"
                     THEN FALSE ELSE processing

\* fetchAgents resumed after its fetch(): lines 95-113
fetchAgentsResponse(l, r) ==
    /\ l \in PendingGet("agents")
    /\ IF GetSucceeded(r) THEN
           /\ agents' = safeAgents(ListOf(r))
           /\ error' = NoMsg
       ELSE
           /\ error' = Text("Failed to load agents. Please refresh.")
           /\ agents' = <<>>
    /\ loads' = [loads EXCEPT ![l].agentsDone = TRUE, ![l].agentsAnswer = AnswerOf(r)]
    /\ AfterLoad(l, "agents")
    /\ UNCHANGED <<page, mounted, transactions, success, selectedAgent, amount,
                   vendor, sent, uuids, clicks>>
    /\ UNCHANGED homeVars

\* fetchTransactions resumed after its fetch(): lines 119-135
fetchTransactionsResponse(l, r) ==
    /\ l \in PendingGet("tx")
    /\ transactions' = IF GetSucceeded(r) THEN safeTxs(ListOf(r)) ELSE <<>>
    /\ loads' = [loads EXCEPT ![l].txDone = TRUE]
    /\ AfterLoad(l, "tx")
    /\ UNCHANGED <<page, mounted, agents, error, success, selectedAgent, amount,
                   vendor, sent, uuids, clicks>>
    /\ UNCHANGED homeVars

\* the Export Audit button; nothing in its try block can throw on the
\* coerced transactions
exportAudit ==
    /\ Rendered
    /\ success' = Text("Audit log exported successfully!")
    /\ UNCHANGED <<page, mounted, agents, transactions, loading, error,
                   selectedAgent, amount, vendor, processing, sent, loads,
                   uuids, clicks>>
    /\ UNCHANGED homeVars

\* x + y on JavaScript numbers
Plus(x, y) ==
    IF x.t = "nan" \/ y.t = "nan" THEN NaN
    ELSE IF x.t = "inf" /\ y.t = "inf" THEN (IF x.n = y.n THEN x ELSE NaN)
    ELSE IF x.t = "inf" THEN x
    ELSE IF y.t = "inf" THEN y
    ELSE Num(x.n + y.n)

\* list.reduce((sum, e) => sum + (e[field] || 0), 0)
RECURSIVE SumOf(_, _)
SumOf(list, field) ==
    IF list = <<>> THEN Num(0)
    ELSE Plus(SumOf(SubSeq(list, 1, Len(list) - 1), field),
              OrZero(list[Len(list)][field]))

\* transactions.filter(tx => tx.status === 'APPROVED')
ApprovedTxs == SelectSeq(transactions, LAMBDA tx : tx.status = "APPROVED")

\* the statistics the dashboard renders
totalBalance == SumOf(agents, "balance")

totalSpent == SumOf(agents, "daily_spent")

totalTax == SumOf(ApprovedTxs, "tax_collected")

-----------------------------------------------------------------------------
(* Home: the wallet page of unnamed/part_000 *)

\* useEffect(() => { fetchAgents() }, [])
HomeMount ==
    /\ page = "home" /\ ~mounted
    /\ Calls < MaxCalls
    /\ mounted' = TRUE
    /\ sent' = Append(sent, Get("home", "/agents"))
    /\ UNCHANGED <<page, loads, uuids, clicks>>
    /\ UNCHANGED dashVars
    /\ UNCHANGED homeVars

\* fetchAgents resumed after its fetch(): lines 20-26
homeFetchAgentsResponse(i, r) ==
    /\ i \in Pending("home", "/agents")
    /\ homeAgents' = IF IsObject(r) /\ r.status = "SUCCESS" THEN r.data ELSE homeAgents
    /\ sent' = Settle(i, r)
    /\ UNCHANGED <<page, mounted, status, loads, uuids, clicks>>
    /\ UNCHANGED dashVars

\* sent after a handler of Home has got its answer r; again = it calls fetchAgents()
HomeSettle(i, r, again) ==
    IF again THEN Append(Settle(i, r), Get("home", "/agents")) ELSE Settle(i, r)

\* the DEPOSIT $100 button of a wallet, up to the call of fetch()
deposit(wallet) ==
    /\ page = "home" /\ mounted
    /\ \E k \in DOMAIN homeAgents : homeAgents[k] = wallet
    /\ Calls < MaxCalls
    /\ status' = Text("Depositing...")
    /\ clicks' = clicks + 1
    /\ sent' = Append(sent,
           Request("home", "/deposit", wallet, Num(10000), <<>>, NoKey, clicks + 1, <<>>))
    /\ UNCHANGED <<page, mounted, homeAgents, loads, uuids>>
    /\ UNCHANGED dashVars

\* deposit resumed after fetch() and response.json(): lines 59-64
depositResponse(i, r) ==
    /\ i \in Pending("home", "/deposit")
    /\ LET confirmed == IsObject(r) /\ r.status = "SUCCESS"
       IN  /\ confirmed => Calls < MaxCalls
           /\ status' = IF confirmed THEN Text("Deposit Confirmed.")
                        ELSE IF IsObject(r) THEN status
                        ELSE Text("Network Error")
           /\ sent' = HomeSettle(i, r, confirmed)
    /\ UNCHANGED <<page, mounted, homeAgents, loads, uuids, clicks>>
    /\ UNCHANGED dashVars

\* the SPEND $50 and TRY $1000 buttons of a wallet, up to the call of fetch()
spend(wallet, amountToSpend) ==
    /\ page = "home" /\ mounted
    /\ \E k \in DOMAIN homeAgents : homeAgents[k] = wallet
    /\ Calls < MaxCalls
    /\ status' = Msg("Processing Payment of $", <<>>, toFixed2(amountToSpend), <<>>)
    /\ clicks' = clicks + 1
    /\ sent' = Append(sent,
           Request("home", "/process-payment", wallet, amountToSpend,
                   <<"A", "W", "S">>, NoKey, clicks + 1, <<>>))
    /\ UNCHANGED <<page, mounted, homeAgents, loads, uuids>>
    /\ UNCHANGED dashVars

\* spend resumed after fetch() and response.json(): lines 76-84
spendResponse(i, r) ==
    /\ i \in Pending("home", "/process-payment")
    /\ LET approved == IsObject(r) /\ r.status = "APPROVED"
       IN  /\ approved => Calls < MaxCalls
           /\ status' = IF approved THEN Text("Payment Approved.")
                        ELSE IF IsObject(r) /\ r.status = "DENIED"
                            THEN Msg("DENIED: ", TemplateString(r.detail), <<>>, <<>>)
                        ELSE IF IsObject(r) THEN status
                        ELSE Text("Network Error")
           /\ sent' = HomeSettle(i, r, approved)
    /\ UNCHANGED <<page, mounted, homeAgents, loads, uuids, clicks>>
    /\ UNCHANGED dashVars

-----------------------------------------------------------------------------
(* The program *)

Next ==
    \/ DashboardMount
    \/ Refresh
    \/ \E id \in {"", "a1"} : SetSelectedAgent(id)
    \/ \E text \in FormAmounts : SetAmount(text)
    \/ \E text \in FormVendors : SetVendor(text)
    \/ handlePayment
    \/ \E i \in DOMAIN sent, r \in PaymentResponses : handlePaymentResponse(i, r)
    \/ \E id \in {"a1"}, answer \in {Null} \cup {Str(t) : t \in PromptInputs} :
            handleDeposit(id, answer)
    \/ \E i \in DOMAIN sent, r \in DepositResponses : handleDepositResponse(i, r)
    \/ \E l \in DOMAIN loads, r \in GetResponses(AgentLists) : fetchAgentsResponse(l, r)
    \/ \E l \in DOMAIN loads, r \in GetResponses(TxLists) : fetchTransactionsResponse(l, r)
    \/ exportAudit
    \/ HomeMount
    \/ \E i \in DOMAIN sent, r \in HomeGetResponses : homeFetchAgentsResponse(i, r)
    \/ \E w \in {"w1"} : deposit(w)
    \/ \E i \in DOMAIN sent, r \in DepositResponses : depositResponse(i, r)
    \/ \E w \in {"w1"}, a \in {Num(5000), Num(100000)} : spend(w, a)
    \/ \E i \in DOMAIN sent, r \in PaymentResponses : spendResponse(i, r)

Spec == Init /\ [][Next]_vars

\* Every fetch() settles, and the event loop then resumes the handler that
\* awaits it: the answer to a pending payment, and to each GET of a loadData()
\* call, is eventually handled.
Settling ==
    /\ WF_vars(\E i \in DOMAIN sent, r \in PaymentResponses : handlePaymentResponse(i, r))
    /\ WF_vars(\E l \in DOMAIN loads, r \in GetResponses(AgentLists) :
                    fetchAgentsResponse(l, r))
    /\ WF_vars(\E l \in DOMAIN loads, r \in GetResponses(TxLists) :
                    fetchTransactionsResponse(l, r))

LiveSpec == Init /\ [][Next]_vars /\ Settling

-----------------------------------------------------------------------------
(* Overlapping refreshes *)

\* The dashboard as it stands once the loadData() of its mount has completed
\* with one agent listed, the payment form filled in.  The record of that
\* first load is not kept, so the calls counted are those made from here on.
LoadedInit ==
    /\ page = "dashboard"
    /\ mounted = TRUE
    /\ agents = safeAgents(<< RawAgent("a1", "w1", Num(10000), Num(0), Num(5000)) >>)
    /\ transactions = <<>>
    /\ loading = FALSE
    /\ error = NoMsg
    /\ success = NoMsg
    /\ selectedAgent = "a1"
    /\ amount = <<"5", "0">>
    /\ vendor = <<"A", "W", "S">>
    /\ processing = FALSE
    /\ status = NoMsg
    /\ homeAgents = <<>>
    /\ sent = <<>>
    /\ loads = <<>>
    /\ uuids = 0
    /\ clicks = 0

\* the operations that start a refresh, and the answers to their requests
RefreshNext ==
    \/ Refresh
    \/ handlePayment
    \/ \E i \in DOMAIN sent, r \in PaymentResponses : handlePaymentResponse(i, r)
    \/ \E answer \in {Str(<<"5">>)} : handleDeposit("a1", answer)
    \/ \E i \in DOMAIN sent, r \in DepositResponses : handleDepositResponse(i, r)
    \/ \E l \in DOMAIN loads, r \in GetResponses(AgentLists) : fetchAgentsResponse(l, r)
    \/ \E l \in DOMAIN loads, r \in GetResponses(TxLists) : fetchTransactionsResponse(l, r)

RefreshSpec == LoadedInit /\ [][RefreshNext]_vars

-----------------------------------------------------------------------------
(* The claims *)

\* request i is a POST /process-payment of the dashboard
IsPayment(i) == sent[i].page = "dashboard" /\ sent[i].url = "/process-payment"

\* request i is a POST /deposit of the dashboard
IsDeposit(i) == sent[i].page = "dashboard" /\ sent[i].url = "/deposit"

\* request i is a state-changing request, of either page
IsMutation(i) == sent[i].url \in {"/process-payment", "/deposit"}

\* requests i and j ask the ledger for the same thing
SamePayload(i, j) ==
    /\ sent[i].wallet_address = sent[j].wallet_address
    /\ sent[i].amount = sent[j].amount
    /\ sent[i].vendor = sent[j].vendor

\* the text denotes a number as a whole
IsNumeric(text) == text # <<>> /\ ~isNaN(Number(Str(text)))

IsApprovedMsg(m) == m.pre = "Payment approved! Vendor received $"

IsDepositedMsg(m) == m.pre = "Deposited $"

\* a payment of the dashboard is outstanding: its request is pending, or the
\* loadData() its approval started has not finished
PaymentOutstanding ==
    \/ Pending("dashboard", "/process-payment") # {}
    \/ \E l \in DOMAIN loads :
          loads[l].parent = "payment" /\ ~(loads[l].agentsDone /\ loads[l].txDone)

\* C1: when a payment's fetch rejected and the next payment submitted asks for
\* the same thing (the operator resubmits), the resent request carries the
\* idempotency key of the failed one.
C1_ResendReusesKey ==
    \A i, j \in DOMAIN sent :
        ( /\ i < j
          /\ IsPayment(i) /\ IsPayment(j)
          /\ sent[i].outcome = "rejected"
          /\ \A k \in (i + 1)..(j - 1) : ~IsPayment(k)
          /\ SamePayload(i, j) )
        => sent[j].idempotency_key = sent[i].idempotency_key

\* C2: every payment and deposit the dashboard sends carries a key, and two
\* requests that come from different user-initiated submissions never carry
\* the same key.
C2_DistinctActionsDistinctKeys ==
    /\ \A i \in DOMAIN sent :
          (IsPayment(i) \/ IsDeposit(i)) => sent[i].idempotency_key # NoKey
    /\ \A i, j \in DOMAIN sent :
          ( /\ sent[i].idempotency_key # NoKey
            /\ sent[j].idempotency_key # NoKey
            /\ sent[i].click # sent[j].click )
          => sent[i].idempotency_key # sent[j].idempotency_key

\* the same handler has sent the requests of two different submissions
C2_Witness ==
    \E i, j \in DOMAIN sent :
        /\ sent[i].click # sent[j].click
        /\ (IsPayment(i) /\ IsPayment(j)) \/ (IsDeposit(i) /\ IsDeposit(j))

\* C3: every POST /process-payment and every POST /deposit, from either page,
\* carries an idempotency_key.
C3_EveryMutationCarriesKey ==
    \A i \in DOMAIN sent : IsMutation(i) => sent[i].idempotency_key # NoKey

\* C4: while a dashboard payment is outstanding the form cannot be submitted,
\* and at most one POST /process-payment of the dashboard is pending.
C4_OnePaymentInFlight ==
    /\ Cardinality(Pending("dashboard", "/process-payment")) <= 1
    /\ PaymentOutstanding => processing /\ ~ENABLED handlePayment

\* a payment was approved and its follow-up refresh is half done
C4_Witness ==
    /\ processing
    /\ Pending("dashboard", "/process-payment") = {}
    /\ \E l \in DOMAIN loads : loads[l].parent = "payment" /\ loads[l].agentsDone
                               /\ ~loads[l].txDone

\* C5: at most one POST /deposit of the dashboard is pending for a wallet.
C5_OneDepositInFlightPerAgent ==
    \A i, j \in Pending("dashboard", "/deposit") :
        sent[i].wallet_address = sent[j].wallet_address => i = j

\* C6: no payment or deposit request of the dashboard was sent for an entered
\* amount that is not a number or is <= 0.
C6_InvalidAmountSendsNothing ==
    \A i \in DOMAIN sent :
        (IsPayment(i) \/ IsDeposit(i)) =>
            IsNumeric(sent[i].entered) /\ ~LeqZero(Number(Str(sent[i].entered)))

\* C7: every amount in the payload of a state-changing request is a positive
\* finite number.
C7_PayloadAmountsFinitePositive ==
    \A i \in DOMAIN sent :
        IsMutation(i) => IsFinite(sent[i].amount) /\ sent[i].amount.n > 0

\* C8: no POST /process-payment of the dashboard has an empty wallet, amount
\* text or vendor.
C8_NoEmptyFieldSent ==
    \A i \in DOMAIN sent :
        IsPayment(i) =>
            /\ sent[i].wallet_address # ""
            /\ sent[i].entered # <<>>
            /\ sent[i].vendor # <<>>

\* C9: in the step that handles a payment's answer, the success message is
\* left alone unless the answer's status is APPROVED, and an HTTP-ok JSON
\* answer with another status sets the denial message and starts no refresh;
\* the approval message is on screen only if some payment was answered
\* APPROVED.
C9_StatusDecidesOutcome ==
    [][ /\ \A i \in DOMAIN sent :
              (IsPayment(i) /\ sent[i].outcome = "pending"
                 /\ sent'[i].outcome # "pending") =>
                  /\ sent'[i].outcome # "APPROVED" =>
                        /\ success' = success
                        /\ ~IsApprovedMsg(success')
                        /\ error' # NoMsg
                  /\ sent'[i].outcome \in {"DENIED", ""} =>
                        /\ error'.pre = "Payment denied: "
                        /\ loads' = loads
                        /\ loading' = loading
        /\ IsApprovedMsg(success') =>
              \E i \in DOMAIN sent' :
                  /\ sent'[i].page = "dashboard"
                  /\ sent'[i].url = "/process-payment"
                  /\ sent'[i].outcome = "APPROVED" ]_vars

\* an HTTP-ok DENIED answer was handled: the denial is shown, no approval is
C9_Witness ==
    /\ \E i \in DOMAIN sent : IsPayment(i) /\ sent[i].outcome = "DENIED"
    /\ error = Msg("Payment denied: ", OverLimit, <<>>, <<>>)
    /\ ~IsApprovedMsg(success)

\* C10: the deposit success message is on screen only if some deposit was
\* answered with status SUCCESS.
C10_DepositSuccessNeedsStatus ==
    IsDepositedMsg(success) =>
        \E i \in DOMAIN sent : IsDeposit(i) /\ sent[i].outcome = "SUCCESS"

\* both GETs of a loadData() call have settled
LoadDone(ld) == ld.agentsDone /\ ld.txDone

\* the dashboard payments answered APPROVED so far
ApprovedPayments == { i \in DOMAIN sent : IsPayment(i) /\ sent[i].outcome = "APPROVED" }

\* the answer to a GET /agents lists the agent with wallet w
ServerListsAgent(ans, w) ==
    ans.ok /\ \E m \in DOMAIN ans.list : ans.list[m].wallet_address = w

\* C11: in the step that handles an APPROVED answer with numeric vendor_paid
\* and tax_collected, the success message shows exactly those two values; and
\* in the step that finishes the handling of an approval (the refresh it
\* awaited is done), the paying agent is displayed with the balance the ledger
\* gave in its answer to that refresh (an answer that succeeds but does not
\* list the agent is left aside).
C11_ApprovedShowsServerValues ==
    [][ /\ \A i \in DOMAIN sent, r \in PaymentResponses :
              ( /\ handlePaymentResponse(i, r)
                /\ PaymentApproved(r)
                /\ r.vendor_paid.t = "num" /\ r.tax_collected.t = "num" ) =>
                  success' = Msg("Payment approved! Vendor received $", <<>>,
                                 toFixed2(r.vendor_paid), toFixed2(r.tax_collected))
        /\ \A l \in DOMAIN loads :
              ( /\ loads[l].parent = "payment"
                /\ ~LoadDone(loads[l]) /\ LoadDone(loads'[l])
                /\ ApprovedPayments # {} ) =>
                  LET ans == loads'[l].agentsAnswer
                      w == sent[CHOOSE i \in ApprovedPayments :
                                  \A j \in ApprovedPayments : j <= i].wallet_address
                  IN  (~ans.ok \/ ServerListsAgent(ans, w)) =>
                          /\ ServerListsAgent(ans, w)
                          /\ \E k \in DOMAIN agents', m \in DOMAIN ans.list :
                                /\ agents'[k].wallet_address = w
                                /\ ans.list[m].wallet_address = w
                                /\ agents'[k].balance = SafeNumber(ans.list[m].balance)
      ]_vars

\* the messages of handlePayment's local validation
ValidationMsgs ==
    { Text("Please fill in all fields"), Text("Invalid amount"), Text("Agent not found") }

\* C12: a step in which a payment attempt fails leaves the agents and the
\* transactions as they were: the step in which the submit handler rejects the
\* form, and the step that handles an answer that is a transport failure, a
\* response that is not ok, a denial, or an approval it cannot format.
C12_FailedPaymentKeepsView ==
    [][ /\ (handlePayment /\ error' \in ValidationMsgs) =>
              agents' = agents /\ transactions' = transactions
        /\ \A i \in DOMAIN sent :
              ( /\ IsPayment(i)
                /\ sent[i].outcome = "pending"
                /\ sent'[i].outcome # "pending"
                /\ sent'[i].outcome # "APPROVED" \/ error' # error ) =>
                  agents' = agents /\ transactions' = transactions
      ]_vars

\* a payment failed while agents and transactions were on screen
C12_Witness ==
    /\ \E i \in DOMAIN sent :
          IsPayment(i) /\ sent[i].outcome \in {"rejected", "http_error", "DENIED"}
    /\ error # NoMsg
    /\ agents # <<>>
    /\ transactions # <<>>

\* The characters a message shows.  A literal of the program is kept whole,
\* as one element, except the one literal a text of the ledger can spell.
Literal(pre) ==
    IF pre = "" THEN <<>>
    ELSE IF pre = "Invalid amount" THEN InvalidAmountText
    ELSE <<pre>>

Shown(m) == Literal(m.pre) \o m.d \o m.a \o m.b

\* C13: a failed payment attempt shows a non-empty error message that tells
\* its failure class.  The submit handler's rejections show one of the three
\* validation messages; in the step that handles an answer and ends the
\* attempt in failure, the text shown is not empty, is not the text of a
\* validation message, is the transport error's message exactly when the fetch
\* was rejected, and for an ok response with a status other than APPROVED is
\* 'Payment denied: ' followed by the server's detail.
C13_ErrorTellsFailureClass ==
    [][ /\ (handlePayment /\ sent' = sent) => error' \in ValidationMsgs
        /\ \A i \in DOMAIN sent, r \in PaymentResponses :
              (handlePaymentResponse(i, r) /\ ~processing') =>
                  /\ Shown(error') # <<>>
                  /\ Shown(error') \notin { Shown(m) : m \in ValidationMsgs }
                  /\ (r.net = "reject") <=> (Shown(error') = Shown(FetchFailed))
                  /\ (r.net = "json" /\ r.ok /\ r.status # "APPROVED") =>
                        Shown(error') = <<"Payment denied: ">> \o TemplateString(r.detail)
      ]_vars

\* a monetary field as stored from what the ledger sent: a finite number, and
\* 0 when what was sent is missing or is no number
StoredSafely(raw, stored) ==
    /\ IsFinite(stored)
    /\ isNaN(Number(raw)) => stored = Num(0)

\* C14: in the step in which fetchAgents or fetchTransactions stores a list
\* of the ledger, every monetary field stored is a finite number, and is 0
\* when the field was missing or non-numeric in the response; after every
\* step the total balance, the total spent and the total tax are finite.
C14_StoredMoneyFinite ==
    [][ /\ \A l \in DOMAIN loads, r \in GetResponses(AgentLists) :
              (fetchAgentsResponse(l, r) /\ GetSucceeded(r)) =>
                  \A k \in DOMAIN agents' :
                      /\ StoredSafely(r.list[k].balance, agents'[k].balance)
                      /\ StoredSafely(r.list[k].daily_spent, agents'[k].daily_spent)
                      /\ StoredSafely(r.list[k].daily_remaining, agents'[k].daily_remaining)
        /\ \A l \in DOMAIN loads, r \in GetResponses(TxLists) :
              (fetchTransactionsResponse(l, r) /\ GetSucceeded(r)) =>
                  \A k \in DOMAIN transactions' :
                      /\ StoredSafely(r.list[k].vendor_paid, transactions'[k].vendor_paid)
                      /\ StoredSafely(r.list[k].tax_collected, transactions'[k].tax_collected)
                      /\ StoredSafely(r.list[k].new_balance, transactions'[k].new_balance)
        /\ IsFinite(totalBalance') /\ IsFinite(totalSpent') /\ IsFinite(totalTax')
      ]_vars

\* C15: the step that handles an ok response with status APPROVED, whatever
\* its vendor_paid and tax_collected are, sets the approval message with each
\* field shown as its numeric value, or as 0 when it has none, sets no error
\* message and starts the refresh.
C15_MalformedApprovalStillApproved ==
    [][ \A i \in DOMAIN sent, r \in PaymentResponses :
            ( /\ handlePaymentResponse(i, r)
              /\ r.net = "json" /\ r.ok /\ r.status = "APPROVED" ) =>
                /\ success' = Msg("Payment approved! Vendor received $", <<>>,
                                  toFixed2(SafeNumber(r.vendor_paid)),
                                  toFixed2(SafeNumber(r.tax_collected)))
                /\ error' = error
                /\ Len(loads') = Len(loads) + 1
                /\ loads'[Len(loads')].parent = "payment"
      ]_vars

\* C16: a response of unexpected shape leaves the view state as it was: the
\* step that handles an ok payment response whose status is neither APPROVED
\* nor DENIED sets an error message, starts no refresh and keeps agents and
\* transactions; the step that handles a GET /agents (GET /transactions)
\* answer that failed, or that lacks the list, keeps agents (transactions).
C16_UnexpectedShapeKeepsView ==
    [][ /\ \A i \in DOMAIN sent, r \in PaymentResponses :
              ( /\ handlePaymentResponse(i, r)
                /\ r.net = "json" /\ r.ok
                /\ r.status \notin {"APPROVED", "DENIED"} ) =>
                  /\ error' # NoMsg
                  /\ loads' = loads
                  /\ agents' = agents /\ transactions' = transactions
        /\ \A l \in DOMAIN loads, r \in GetResponses(AgentLists) :
              (fetchAgentsResponse(l, r) /\ ~(r.net = "json" /\ r.ok /\ r.has)) =>
                  agents' = agents
        /\ \A l \in DOMAIN loads, r \in GetResponses(TxLists) :
              (fetchTransactionsResponse(l, r) /\ ~(r.net = "json" /\ r.ok /\ r.has)) =>
                  transactions' = transactions
      ]_vars

\* no request of the dashboard is awaited
NothingInFlight ==
    /\ \A l \in DOMAIN loads : LoadDone(loads[l])
    /\ \A i \in DOMAIN sent : sent[i].outcome # "pending"

\* C17: whenever no request is in flight and the GET /agents issued last was
\* answered with a list, the agents on screen are that list (as fetchAgents
\* stores it).
C17_LatestRefreshShown ==
    (NothingInFlight /\ loads # <<>>) =>
        LET ans == loads[Len(loads)].agentsAnswer
        IN  (ans.ok /\ ans.has) => agents = safeAgents(ans.list)

\* C19: the error message and the success message of the dashboard are never
\* both set.
C19_NeverBothBanners == ~(error # NoMsg /\ success # NoMsg)

\* C18: processing is true only while a payment of the dashboard is
\* outstanding (its request pending, or the refresh its approval started not
\* finished); and, every request settling, processing = true leads to
\* processing = false with the success message or an error message set.
C18_ProcessingEnds ==
    /\ [](processing => PaymentOutstanding)
    /\ processing ~> (~processing /\ (success # NoMsg \/ error # NoMsg))

\* an approved payment and its refresh have been handled to the end
C18_Witness ==
    /\ ~processing
    /\ IsApprovedMsg(success)
    /\ \E l \in DOMAIN loads : loads[l].parent = "payment" /\ LoadDone(loads[l])

====
